---- MODULE Spec2Model ----
(***************************************************************************)
(* Conway's Game of Life with an SDL front end (src/main.c).              *)
(*                                                                         *)
(* The module holds two specifications over the same program state:       *)
(*   Spec      the whole program: sdl_init, the main loop, handle_events  *)
(*             one polled event at a time, draw_cursor_pixel, update_grid,*)
(*             update_screen and sdl_cleanup, on small configurations;    *)
(*   SpecStep  the grid engine alone: update_grid run cell by cell from   *)
(*             every grid of a bounded size, generation after generation. *)
(***************************************************************************)
EXTENDS Integers, FiniteSets, Sequences, TLC

VARIABLES
    C,           \* struct config: width, height, scale (a rational num/den)
    state,       \* state_t state: "RUNNING", "PAUSED", "QUIT"
    pc,          \* position of main()
    grid,        \* bool *grid, a flat array indexed x * C.height + y
    next_gen,    \* bool *next_gen, same layout
    pixels,      \* what the renderer shows at each logical pixel: "bg", "fg", "cp"
    draw_flag,   \* static bool draw_flag of handle_events
    erase_flag,  \* static bool erase_flag of handle_events
    cp,          \* struct cursor_pixel
    mouse,       \* SDL's mouse position in device pixels (SDL_GetMouseState)
    handles,     \* window, renderer, cursor, grid, next_gen: "null", "live", "released"
    fault,       \* history: the undefined operations executed so far
    scan,        \* update_grid's loop position [i, j] (SpecStep)
    written,     \* history: the next_gen indices written by the running scan
    reads,       \* history: the coordinates the last is_alive call passed to get_cell
    seed,        \* history: the grid SpecStep started from
    gens,        \* history: generations completed in SpecStep
    event,       \* SDL_Event event of handle_events: the event polled last
    rendered,    \* history: the render calls the last action made, in order
    toggles,     \* history: the number of SDLK_SPACE events handled, modulo 2
    pressed      \* history: the buttons among LEFT and RIGHT whose last event was a press

vars == <<C, state, pc, grid, next_gen, pixels, draw_flag, erase_flag, cp, mouse,
          handles, fault, scan, written, reads, seed, gens, event, rendered, toggles,
          pressed>>

progVars == <<C, state, grid, next_gen, pixels, draw_flag, erase_flag, cp, mouse,
              handles, fault>>

stepVars == <<scan, written, reads, seed, gens>>

histVars == <<toggles, pressed>>

(***************************************************************************)
(* Bounds of the model.                                                    *)
(***************************************************************************)
\* SpecStep starts from every grid of at most MaxCells cells.
MaxCells == 9

\* SpecStep also starts from the 5 x 3 grids with at most MaxAlive live cells.
MaxAlive == 3

\* SpecStep runs at most MaxGens generations from each starting grid.
MaxGens == 2

(***************************************************************************)
(* Configuration (struct config C, set_config).                            *)
(***************************************************************************)
Scale(num, den) == [num |-> num, den |-> den]

Config(w, h, s) == [width |-> w, height |-> h, scale |-> s]

\* The command lines the whole-program specification is run with: each passes
\* set_config (width > 0, height > 0, scale > 0).  -s 1.5 and -s 0.5 are
\* accepted fractional scales.
Configs ==
    { Config(3, 1, Scale(1, 1)),
      Config(1, 2, Scale(2, 1)),
      Config(2, 1, Scale(3, 2)),
      Config(2, 2, Scale(1, 2)) }

\* set_config's checks on -w, -h and -s.
set_config(c) ==
    /\ c.width > 0
    /\ c.height > 0
    /\ c.scale.num > 0 /\ c.scale.den > 0

\* (uint32_t)C.scale: the float converted to an unsigned integer, truncated.
ScaleU32 == C.scale.num \div C.scale.den

\* C.width * C.scale and C.height * C.scale passed to SDL_CreateWindow as int.
WindowW == (C.width * C.scale.num) \div C.scale.den

WindowH == (C.height * C.scale.num) \div C.scale.den

\* The device pixels of the window.
WindowPixels == { [x |-> px, y |-> py] : px \in 0..(WindowW - 1), py \in 0..(WindowH - 1) }

(***************************************************************************)
(* Grid storage (get_cell, set_cell).                                      *)
(***************************************************************************)
grid_size == C.width * C.height

Cells == 0..(grid_size - 1)

InRange(x, y) == x \in 0..(C.width - 1) /\ y \in 0..(C.height - 1)

\* Mutant of Idx: the stride is the width, x * C.width + y.
Idx_width_stride(x, y) == x * C.width + y

\* The flat index of get_cell and set_cell.
Idx(x, y) == x * C.height + y

\* get_cell.  A read outside the buffer is undefined: it yields `wild'.
get_cell(arr, x, y, wild) ==
    IF Idx(x, y) \in DOMAIN arr THEN arr[Idx(x, y)] ELSE wild

\* set_cell.  A write outside the buffer does not land in the array.
set_cell(arr, x, y, val) ==
    IF Idx(x, y) \in DOMAIN arr THEN [arr EXCEPT ![Idx(x, y)] = val] ELSE arr

AllDead == [k \in Cells |-> FALSE]

AllGrids == [Cells -> BOOLEAN]

(***************************************************************************)
(* The life rule (is_alive).                                               *)
(***************************************************************************)
\* The guards of is_alive's eight neighbour tests.
HasLeft(x) == x > 0

\* Mutant of HasRight: the bound is off by one.
HasRight_off_by_one(x) == x < C.width

HasRight(x) == x < C.width - 1

HasTop(y) == y > 0

HasBottom(y) == y < C.height - 1

\* The eight tests in source order: guard, and the coordinate get_cell is
\* called with when the guard holds (&& does not evaluate it otherwise).
Probes(x, y) ==
    << [ok |-> HasLeft(x),                    x |-> x - 1, y |-> y],
       [ok |-> HasRight(x),                   x |-> x + 1, y |-> y],
       [ok |-> HasTop(y),                     x |-> x,     y |-> y - 1],
       [ok |-> HasBottom(y),                  x |-> x,     y |-> y + 1],
       [ok |-> HasLeft(x) /\ HasTop(y),       x |-> x - 1, y |-> y - 1],
       [ok |-> HasRight(x) /\ HasTop(y),      x |-> x + 1, y |-> y - 1],
       [ok |-> HasLeft(x) /\ HasBottom(y),    x |-> x - 1, y |-> y + 1],
       [ok |-> HasRight(x) /\ HasBottom(y),   x |-> x + 1, y |-> y + 1] >>

\* Mutant of neighbors: the four diagonal tests are missing.
neighbors_orthogonal(g, x, y, wild) ==
    LET ps == Probes(x, y)
    IN  Cardinality({ n \in 1..4 : ps[n].ok /\ get_cell(g, ps[n].x, ps[n].y, wild) })

\* int neighbors after the eight tests.
neighbors(g, x, y, wild) ==
    LET ps == Probes(x, y)
    IN  Cardinality({ n \in 1..8 : ps[n].ok /\ get_cell(g, ps[n].x, ps[n].y, wild) })

\* The coordinates one is_alive(x, y) call reads through get_cell.
is_alive_reads(x, y) ==
    LET ps == Probes(x, y)
    IN  { <<ps[n].x, ps[n].y>> : n \in { m \in 1..8 : ps[m].ok } } \cup { <<x, y>> }

\* Mutant of rule: overcrowding tested as n >= 3.
rule_crowded_at_three(alive, n) ==
    IF alive /\ (n < 2 \/ n >= 3) THEN FALSE
    ELSE IF alive /\ (n = 2 \/ n = 3) THEN TRUE
    ELSE IF ~alive /\ n = 3 THEN TRUE
    ELSE FALSE

\* The three tests on the cell's own state and the final return false.
rule(alive, n) ==
    IF alive /\ (n < 2 \/ n > 3) THEN FALSE
    ELSE IF alive /\ (n = 2 \/ n = 3) THEN TRUE
    ELSE IF ~alive /\ n = 3 THEN TRUE
    ELSE FALSE

is_alive(g, x, y, wild) ==
    LET n == neighbors(g, x, y, wild)
        alive == get_cell(g, x, y, wild)
    IN  rule(alive, n)

(***************************************************************************)
(* update_grid: the scan over all cells, then the memcpy.                  *)
(* bufs is the pair of buffers [grid, next_gen].                           *)
(***************************************************************************)
Bufs(g, ng) == [grid |-> g, next_gen |-> ng]

\* Mutant of scan_cell: the new value is stored into grid itself.
scan_cell_in_place(bufs, i, j, wild) ==
    LET val == is_alive(bufs.grid, i, j, wild)
    IN  [ grid     |-> set_cell(bufs.grid, i, j, val),
          next_gen |-> bufs.next_gen,
          wrote    |-> {} ]

\* The loop body: set_cell(next_gen, i, j, is_alive(i, j)).
scan_cell(bufs, i, j, wild) ==
    LET val == is_alive(bufs.grid, i, j, wild)
    IN  [ grid     |-> bufs.grid,
          next_gen |-> set_cell(bufs.next_gen, i, j, val),
          wrote    |-> { Idx(i, j) } ]

\* The loop headers: j runs inside i.
scan_first == [i |-> 0, j |-> 0]

scan_next(p) ==
    IF p.j + 1 < C.height THEN [i |-> p.i, j |-> p.j + 1] ELSE [i |-> p.i + 1, j |-> 0]

scan_done(p) == ~(p.i < C.width)

\* memcpy(grid, next_gen, grid_size).
copy_back(bufs) == Bufs(bufs.next_gen, bufs.next_gen)

RECURSIVE scan_from(_, _, _)
scan_from(bufs, p, wild) ==
    IF scan_done(p) THEN bufs
    ELSE LET r == scan_cell(bufs, p.i, p.j, wild)
         IN  scan_from(Bufs(r.grid, r.next_gen), scan_next(p), wild)

\* The whole of update_grid.
update_grid(bufs, wild) == copy_back(scan_from(bufs, scan_first, wild))

(***************************************************************************)
(* Initial values of the globals (main.c lines 27-68).                     *)
(***************************************************************************)
cp_init ==
    [x |-> 0, y |-> 0, prev_x |-> 0, prev_y |-> 0, prev_state |-> FALSE, active |-> FALSE]

Resources == {"window", "renderer", "cursor", "grid", "next_gen"}

(***************************************************************************)
(* Grid commands and rendering (clear_grid, fill_grid, update_screen,      *)
(* draw_pixel).                                                            *)
(***************************************************************************)
\* Mutant of clear_grid: memset(grid, 0, C.height), one column only.
clear_grid_one_column == [k \in Cells |-> IF k < C.height THEN FALSE ELSE grid[k]]

\* memset(grid, 0, grid_size).
clear_grid == AllDead

\* fill_grid: every cell gets rand() % 2, so any grid may result.
fill_grid == AllGrids

\* update_screen: clear_screen, then a foreground point for every live cell.
update_screen(g) == [k \in Cells |-> IF g[k] THEN "fg" ELSE "bg"]

\* draw_pixel: one point in the given colour; a point outside the surface is clipped.
draw_pixel(px, x, y, color) ==
    IF InRange(x, y) THEN [px EXCEPT ![Idx(x, y)] = color] ELSE px

(***************************************************************************)
(* Device pixel to grid coordinate: v / (uint32_t)C.scale.                 *)
(* Dividing by zero is undefined: the build either traps or goes on with   *)
(* some quotient, modelled as 0.                                           *)
(***************************************************************************)
Divide(v) ==
    IF ScaleU32 # 0
    THEN { [trap |-> FALSE, q |-> v \div ScaleU32] }
    ELSE { [trap |-> TRUE, q |-> 0], [trap |-> FALSE, q |-> 0] }

DivFault == IF ScaleU32 = 0 THEN {"div_by_zero"} ELSE {}

\* The fault a get_cell or set_cell call at (x, y) adds.
AccessFault(x, y) == IF InRange(x, y) THEN {} ELSE {"out_of_range"}

\* A store outside the buffer is undefined: the build goes on or crashes.
StoreOutcomes(x, y) == IF Idx(x, y) \in Cells THEN {"stored"} ELSE {"missed", "crash"}

\* A render call: draw_pixel(x, y, color), or update_screen over the whole grid.
Point(x, y, color) == [kind |-> "draw_pixel", x |-> x, y |-> y, color |-> color]

FullRedraw == [kind |-> "update_screen", x |-> 0, y |-> 0, color |-> "grid"]

\* SDL_Event: its type and the key, button or window event it carries.
Event(type, arg) == [type |-> type, arg |-> arg]

\* The local `event' before the first SDL_PollEvent and after handle_events returned.
NoEvent == Event("none", "")

(***************************************************************************)
(* Startup and shutdown (sdl_init, sdl_cleanup, main).                     *)
(***************************************************************************)
Init ==
    /\ C \in Configs
    /\ set_config(C)
    /\ state = "RUNNING"
    /\ pc = "sdl_init"
    /\ grid = AllDead
    /\ next_gen = AllDead
    /\ pixels = [k \in Cells |-> "bg"]
    /\ draw_flag = FALSE
    /\ erase_flag = FALSE
    /\ cp = cp_init
    /\ mouse = [x |-> 0, y |-> 0]
    /\ handles = [r \in Resources |-> "null"]
    /\ fault = {}
    /\ scan = scan_first
    /\ written = {}
    /\ reads = {}
    /\ seed = AllDead
    /\ gens = 0
    /\ event = NoEvent
    /\ rendered = <<>>
    /\ toggles = 0
    /\ pressed = {}

\* The calls of sdl_init in order; each may fail, and sdl_init then returns false.
SdlCalls ==
    << "SDL_Init", "SDL_CreateWindow", "SDL_CreateRenderer", "SDL_RenderSetScale",
       "SDL_CreateSystemCursor" >>

\* The handles sdl_init holds when its first `done' calls succeeded.
sdl_acquired(done) ==
    [ r \in Resources |->
        IF \/ r = "window" /\ done >= 2
           \/ r = "renderer" /\ done >= 3
           \/ r = "cursor" /\ done >= 5
        THEN "live" ELSE "null" ]

\* sdl_init: the first `done' calls succeed.
SdlInit ==
    /\ pc = "sdl_init"
    /\ \E done \in 0..Len(SdlCalls) :
         /\ handles' = sdl_acquired(done)
         /\ pc' = IF done = Len(SdlCalls) THEN "alloc" ELSE "cleanup_failed"
    /\ UNCHANGED <<C, state, grid, next_gen, pixels, draw_flag, erase_flag, cp, mouse, fault>>
    /\ UNCHANGED stepVars
    /\ UNCHANGED <<event, rendered>>
    /\ UNCHANGED histVars

\* main, lines 519-531: both buffers are allocated and zeroed.
InitGrids ==
    /\ pc = "alloc"
    /\ handles' = [handles EXCEPT !["grid"] = "live", !["next_gen"] = "live"]
    /\ grid' = AllDead
    /\ next_gen' = AllDead
    /\ pc' = "loop"
    /\ UNCHANGED <<C, state, pixels, draw_flag, erase_flag, cp, mouse, fault>>
    /\ UNCHANGED stepVars
    /\ UNCHANGED <<event, rendered>>
    /\ UNCHANGED histVars

\* One SDL_Destroy* / SDL_FreeCursor call on a handle; NULL is ignored.
release(h) ==
    CASE h = "live" -> "released"
      [] h = "released" -> "released_twice"
      [] OTHER -> h

\* sdl_cleanup: renderer, window and cursor are destroyed; nothing else is.
sdl_cleanup(hs) ==
    [ r \in Resources |->
        IF r \in {"renderer", "window", "cursor"} THEN release(hs[r]) ELSE hs[r] ]

\* sdl_cleanup and the return of main, after a failed sdl_init or after the loop.
SdlCleanup ==
    /\ pc \in {"cleanup_failed", "cleanup"}
    /\ handles' = sdl_cleanup(handles)
    /\ pc' = IF pc = "cleanup" THEN "exit_success" ELSE "exit_failure"
    /\ UNCHANGED <<C, state, grid, next_gen, pixels, draw_flag, erase_flag, cp, mouse, fault>>
    /\ UNCHANGED stepVars
    /\ UNCHANGED <<event, rendered>>
    /\ UNCHANGED histVars

\* while (state != QUIT).
LoopTest ==
    /\ pc = "loop"
    /\ pc' = IF state # "QUIT" THEN "events" ELSE "cleanup"
    /\ UNCHANGED progVars
    /\ UNCHANGED stepVars
    /\ event' = NoEvent
    /\ rendered' = <<>>
    /\ UNCHANGED histVars

(***************************************************************************)
(* handle_events: one action per polled event.  SDL_PollEvent may return   *)
(* any event of the alphabet while pc = "events", or 0 (PollEmpty).        *)
(***************************************************************************)
\* Mutant of AfterQuit: `break' in place of `return', so polling goes on.
AfterQuit_break == "events"

\* Where the program continues after `state = QUIT; return;': handle_events
\* is left at once.
AfterQuit == "after_events"

\* case SDL_QUIT.
OnQuit ==
    /\ pc = "events"
    /\ state' = "QUIT"
    /\ pc' = AfterQuit
    /\ UNCHANGED <<C, grid, next_gen, pixels, draw_flag, erase_flag, cp, mouse, handles, fault>>
    /\ UNCHANGED stepVars
    /\ event' = Event("SDL_QUIT", "")
    /\ rendered' = <<>>
    /\ UNCHANGED histVars

\* case SDLK_ESCAPE.
OnKeyEscape ==
    /\ pc = "events"
    /\ state' = "QUIT"
    /\ pc' = AfterQuit
    /\ UNCHANGED <<C, grid, next_gen, pixels, draw_flag, erase_flag, cp, mouse, handles, fault>>
    /\ UNCHANGED stepVars
    /\ event' = Event("SDL_KEYDOWN", "SDLK_ESCAPE")
    /\ rendered' = <<>>
    /\ UNCHANGED histVars

\* Mutant of toggle: `state = PAUSED', so the key pauses and never resumes.
toggle_pause_only(s) == IF s = "RUNNING" THEN "PAUSED" ELSE s

\* state = (state == RUNNING) ? PAUSED : RUNNING.
toggle(s) == IF s = "RUNNING" THEN "PAUSED" ELSE "RUNNING"

\* case SDLK_SPACE.
OnKeySpace ==
    /\ pc = "events"
    /\ state' = toggle(state)
    /\ UNCHANGED <<C, pc, grid, next_gen, pixels, draw_flag, erase_flag, cp, mouse, handles, fault>>
    /\ UNCHANGED stepVars
    /\ event' = Event("SDL_KEYDOWN", "SDLK_SPACE")
    /\ rendered' = <<>>
    /\ toggles' = (toggles + 1) % 2
    /\ UNCHANGED pressed

\* case SDLK_c.
OnKeyC ==
    /\ pc = "events"
    /\ grid' = clear_grid
    /\ pixels' = update_screen(grid')
    /\ UNCHANGED <<C, state, pc, next_gen, draw_flag, erase_flag, cp, mouse, handles, fault>>
    /\ UNCHANGED stepVars
    /\ event' = Event("SDL_KEYDOWN", "SDLK_c")
    /\ rendered' = <<FullRedraw>>
    /\ UNCHANGED histVars

\* case SDLK_r.
OnKeyR ==
    /\ pc = "events"
    /\ grid' \in fill_grid
    /\ pixels' = update_screen(grid')
    /\ UNCHANGED <<C, state, pc, next_gen, draw_flag, erase_flag, cp, mouse, handles, fault>>
    /\ UNCHANGED stepVars
    /\ event' = Event("SDL_KEYDOWN", "SDLK_r")
    /\ rendered' = <<FullRedraw>>
    /\ UNCHANGED histVars

\* What an editing handler works on.
Cur == [grid |-> grid, pixels |-> pixels, fault |-> fault, crashed |-> FALSE, rendered |-> <<>>]

\* The state after a trapping division.
Trap == [Cur EXCEPT !.fault = fault \cup {"div_by_zero"}, !.crashed = TRUE]

\* The state after the two divisions went through.
Divided == [Cur EXCEPT !.fault = fault \cup DivFault]

\* set_cell(grid, x, y, val); draw_pixel(x, y, val ? C.fg_color : C.bg_color).
edit(st, x, y, val, outcome) ==
    LET color == IF val THEN "fg" ELSE "bg"
    IN  IF st.crashed THEN st
        ELSE IF outcome = "crash"
        THEN [st EXCEPT !.fault = st.fault \cup AccessFault(x, y), !.crashed = TRUE]
        ELSE [ grid     |-> set_cell(st.grid, x, y, val),
               pixels   |-> draw_pixel(st.pixels, x, y, color),
               fault    |-> st.fault \cup AccessFault(x, y),
               crashed  |-> FALSE,
               rendered |-> Append(st.rendered, Point(x, y, color)) ]

Commit(st) ==
    /\ grid' = st.grid
    /\ pixels' = st.pixels
    /\ fault' = st.fault
    /\ rendered' = st.rendered
    /\ pc' = IF st.crashed THEN "crashed" ELSE pc

Buttons == {"LEFT", "RIGHT", "MIDDLE"}

\* case SDL_MOUSEBUTTONDOWN.  The event carries SDL's mouse position.
OnMouseButtonDown ==
    /\ pc = "events"
    /\ \E button \in Buttons, dx \in Divide(mouse.x), dy \in Divide(mouse.y) :
         /\ event' = Event("SDL_MOUSEBUTTONDOWN", button)
         /\ pressed' = pressed \cup ({button} \cap {"LEFT", "RIGHT"})
         /\ IF dx.trap \/ dy.trap
            THEN Commit(Trap) /\ UNCHANGED <<draw_flag, erase_flag>>
            ELSE \E o \in StoreOutcomes(dx.q, dy.q) :
                   CASE button = "LEFT" ->
                          /\ Commit(edit(Divided, dx.q, dy.q, TRUE, o))
                          /\ draw_flag' = IF o = "crash" THEN draw_flag ELSE TRUE
                          /\ UNCHANGED erase_flag
                     [] button = "RIGHT" ->
                          /\ Commit(edit(Divided, dx.q, dy.q, FALSE, o))
                          /\ erase_flag' = IF o = "crash" THEN erase_flag ELSE TRUE
                          /\ UNCHANGED draw_flag
                     [] OTHER ->
                          /\ Commit(Divided)
                          /\ UNCHANGED <<draw_flag, erase_flag>>
    /\ UNCHANGED <<C, state, next_gen, cp, mouse, handles>>
    /\ UNCHANGED stepVars
    /\ UNCHANGED toggles

\* Mutant of OnMouseButtonUp: both flags are cleared whatever button was released.
OnMouseButtonUp_any_button ==
    /\ pc = "events"
    /\ \E button \in Buttons :
         /\ event' = Event("SDL_MOUSEBUTTONUP", button)
         /\ pressed' = pressed \ {button}
         /\ draw_flag' = FALSE
         /\ erase_flag' = FALSE
    /\ UNCHANGED <<C, state, pc, grid, next_gen, pixels, cp, mouse, handles, fault>>
    /\ UNCHANGED stepVars
    /\ rendered' = <<>>
    /\ UNCHANGED toggles

\* case SDL_MOUSEBUTTONUP.
OnMouseButtonUp ==
    /\ pc = "events"
    /\ \E button \in Buttons :
         /\ event' = Event("SDL_MOUSEBUTTONUP", button)
         /\ pressed' = pressed \ {button}
         /\ draw_flag' = IF button = "LEFT" THEN FALSE ELSE draw_flag
         /\ erase_flag' = IF button = "RIGHT" THEN FALSE ELSE erase_flag
    /\ UNCHANGED <<C, state, pc, grid, next_gen, pixels, cp, mouse, handles, fault>>
    /\ UNCHANGED stepVars
    /\ rendered' = <<>>
    /\ UNCHANGED toggles

\* Mutant of motion: the cell is drawn and erased whatever the flags are.
motion_unconditional(st, x, y, draw, erase, o1, o2) ==
    edit(edit(st, x, y, TRUE, o1), x, y, FALSE, o2)

\* Mutant of motion: the erase_flag branch comes before the draw_flag branch.
motion_erase_first(st, x, y, draw, erase, o1, o2) ==
    LET erased == IF erase THEN edit(st, x, y, FALSE, o2) ELSE st
    IN  IF draw THEN edit(erased, x, y, TRUE, o1) ELSE erased

\* Lines 340-352: if (draw_flag) { set alive, draw } if (erase_flag) { set dead, draw }.
motion(st, x, y, draw, erase, o1, o2) ==
    LET drawn == IF draw THEN edit(st, x, y, TRUE, o1) ELSE st
    IN  IF erase THEN edit(drawn, x, y, FALSE, o2) ELSE drawn

\* case SDL_MOUSEMOTION, to any device pixel of the window.
OnMouseMotion ==
    /\ pc = "events"
    /\ \E p \in WindowPixels :
       \E dx \in Divide(p.x), dy \in Divide(p.y) :
         /\ mouse' = p
         /\ IF dx.trap \/ dy.trap
            THEN Commit(Trap)
            ELSE \E o1 \in StoreOutcomes(dx.q, dy.q), o2 \in StoreOutcomes(dx.q, dy.q) :
                   Commit(motion(Divided, dx.q, dy.q, draw_flag, erase_flag, o1, o2))
    /\ UNCHANGED <<C, state, next_gen, draw_flag, erase_flag, cp, handles>>
    /\ UNCHANGED stepVars
    /\ event' = Event("SDL_MOUSEMOTION", "")
    /\ UNCHANGED histVars

\* case SDL_WINDOWEVENT, SDL_WINDOWEVENT_ENTER.
OnWindowEnter ==
    /\ pc = "events"
    /\ cp' = [cp EXCEPT !.active = TRUE]
    /\ UNCHANGED <<C, state, pc, grid, next_gen, pixels, draw_flag, erase_flag, mouse,
                   handles, fault>>
    /\ UNCHANGED stepVars
    /\ event' = Event("SDL_WINDOWEVENT", "SDL_WINDOWEVENT_ENTER")
    /\ rendered' = <<>>
    /\ UNCHANGED histVars

\* Mutant of OnWindowLeave: losing the pointer also pauses the simulation.
OnWindowLeave_pauses ==
    /\ pc = "events"
    /\ cp' = [cp EXCEPT !.active = FALSE]
    /\ state' = "PAUSED"
    /\ UNCHANGED <<C, pc, grid, next_gen, pixels, draw_flag, erase_flag, mouse,
                   handles, fault>>
    /\ UNCHANGED stepVars
    /\ event' = Event("SDL_WINDOWEVENT", "SDL_WINDOWEVENT_LEAVE")
    /\ rendered' = <<>>
    /\ UNCHANGED histVars

\* case SDL_WINDOWEVENT, SDL_WINDOWEVENT_LEAVE.
OnWindowLeave ==
    /\ pc = "events"
    /\ cp' = [cp EXCEPT !.active = FALSE]
    /\ UNCHANGED <<C, state, pc, grid, next_gen, pixels, draw_flag, erase_flag, mouse,
                   handles, fault>>
    /\ UNCHANGED stepVars
    /\ event' = Event("SDL_WINDOWEVENT", "SDL_WINDOWEVENT_LEAVE")
    /\ rendered' = <<>>
    /\ UNCHANGED histVars

\* SDL_PollEvent returns 0: handle_events returns.
PollEmpty ==
    /\ pc = "events"
    /\ pc' = "after_events"
    /\ UNCHANGED progVars
    /\ UNCHANGED stepVars
    /\ event' = NoEvent
    /\ rendered' = <<>>
    /\ UNCHANGED histVars

(***************************************************************************)
(* draw_cursor_pixel.                                                      *)
(***************************************************************************)
\* Lines 369-373: the ghost is not active.
ghost_inactive(c, px) ==
    LET color == IF c.prev_state THEN "fg" ELSE "bg"
    IN  [ cp       |-> c,
          pixels   |-> draw_pixel(px, c.prev_x, c.prev_y, color),
          rendered |-> <<Point(c.prev_x, c.prev_y, color)>> ]

\* Mutant of ghost_active: the ghost is drawn whatever the cell holds.
ghost_active_always_draws(c, g, px, x, y, wild) ==
    LET cur    == get_cell(g, x, y, wild)
        color  == IF c.prev_state THEN "fg" ELSE "bg"
        ghost  == draw_pixel(px, x, y, "cp")
        moved  == x # c.prev_x \/ y # c.prev_y
        reset  == IF moved THEN draw_pixel(ghost, c.prev_x, c.prev_y, color) ELSE ghost
    IN  [ cp       |-> [c EXCEPT !.x = x, !.y = y, !.prev_x = x, !.prev_y = y,
                                 !.prev_state = cur],
          pixels   |-> reset,
          rendered |-> <<Point(x, y, "cp")>>
                       \o (IF moved THEN <<Point(c.prev_x, c.prev_y, color)>> ELSE <<>>) ]

\* Mutant of ghost_active: the previous ghost position is never redrawn.
ghost_active_no_restore(c, g, px, x, y, wild) ==
    LET cur == get_cell(g, x, y, wild)
    IN  [ cp       |-> [c EXCEPT !.x = x, !.y = y, !.prev_x = x, !.prev_y = y,
                                 !.prev_state = cur],
          pixels   |-> IF ~cur THEN draw_pixel(px, x, y, "cp") ELSE px,
          rendered |-> IF ~cur THEN <<Point(x, y, "cp")>> ELSE <<>> ]

\* Lines 380-389, with (x, y) the converted mouse position.
ghost_active(c, g, px, x, y, wild) ==
    LET cur    == get_cell(g, x, y, wild)
        color  == IF c.prev_state THEN "fg" ELSE "bg"
        ghost  == IF ~cur THEN draw_pixel(px, x, y, "cp") ELSE px
        moved  == x # c.prev_x \/ y # c.prev_y
        reset  == IF moved THEN draw_pixel(ghost, c.prev_x, c.prev_y, color) ELSE ghost
    IN  [ cp       |-> [c EXCEPT !.x = x, !.y = y, !.prev_x = x, !.prev_y = y,
                                 !.prev_state = cur],
          pixels   |-> reset,
          rendered |-> (IF ~cur THEN <<Point(x, y, "cp")>> ELSE <<>>)
                       \o (IF moved THEN <<Point(c.prev_x, c.prev_y, color)>> ELSE <<>>) ]

\* if (state == PAUSED) { draw_cursor_pixel(); continue; }
DrawCursorPixel ==
    /\ pc = "after_events"
    /\ state = "PAUSED"
    /\ IF ~cp.active
       THEN /\ cp' = ghost_inactive(cp, pixels).cp
            /\ pixels' = ghost_inactive(cp, pixels).pixels
            /\ rendered' = ghost_inactive(cp, pixels).rendered
            /\ pc' = "loop"
            /\ UNCHANGED fault
       ELSE \E dx \in Divide(mouse.x), dy \in Divide(mouse.y), wild \in BOOLEAN :
              IF dx.trap \/ dy.trap
              THEN /\ cp' = [cp EXCEPT !.x = mouse.x, !.y = mouse.y]
                   /\ fault' = fault \cup {"div_by_zero"}
                   /\ pc' = "crashed"
                   /\ rendered' = <<>>
                   /\ UNCHANGED pixels
              ELSE LET r == ghost_active(cp, grid, pixels, dx.q, dy.q, wild)
                   IN  /\ cp' = r.cp
                       /\ pixels' = r.pixels
                       /\ rendered' = r.rendered
                       /\ fault' = fault \cup DivFault \cup AccessFault(dx.q, dy.q)
                       /\ pc' = "loop"
    /\ UNCHANGED <<C, state, grid, next_gen, draw_flag, erase_flag, mouse, handles>>
    /\ UNCHANGED stepVars
    /\ UNCHANGED event
    /\ UNCHANGED histVars

(***************************************************************************)
(* The rest of the loop body: update_grid(); update_screen();              *)
(***************************************************************************)
\* Mutant of UpdateGrid: the `if (state == PAUSED) continue' is missing.
UpdateGrid_every_frame ==
    /\ pc = "after_events"
    /\ \E wild \in BOOLEAN :
         LET b == update_grid(Bufs(grid, next_gen), wild)
         IN  /\ grid' = b.grid
             /\ next_gen' = b.next_gen
    /\ pc' = "update_screen"
    /\ UNCHANGED <<C, state, pixels, draw_flag, erase_flag, cp, mouse, handles, fault>>
    /\ UNCHANGED stepVars
    /\ rendered' = <<>>
    /\ UNCHANGED event
    /\ UNCHANGED histVars

\* update_grid(), reached only when the state is not PAUSED.
UpdateGrid ==
    /\ pc = "after_events"
    /\ state # "PAUSED"
    /\ \E wild \in BOOLEAN :
         LET b == update_grid(Bufs(grid, next_gen), wild)
         IN  /\ grid' = b.grid
             /\ next_gen' = b.next_gen
    /\ pc' = "update_screen"
    /\ UNCHANGED <<C, state, pixels, draw_flag, erase_flag, cp, mouse, handles, fault>>
    /\ UNCHANGED stepVars
    /\ rendered' = <<>>
    /\ UNCHANGED event
    /\ UNCHANGED histVars

UpdateScreen ==
    /\ pc = "update_screen"
    /\ pixels' = update_screen(grid)
    /\ pc' = "loop"
    /\ UNCHANGED <<C, state, grid, next_gen, draw_flag, erase_flag, cp, mouse, handles, fault>>
    /\ UNCHANGED stepVars
    /\ rendered' = <<FullRedraw>>
    /\ UNCHANGED event
    /\ UNCHANGED histVars

Next ==
    \/ SdlInit
    \/ InitGrids
    \/ LoopTest
    \/ OnQuit
    \/ OnKeyEscape
    \/ OnKeySpace
    \/ OnKeyC
    \/ OnKeyR
    \/ OnMouseButtonDown
    \/ OnMouseButtonUp
    \/ OnMouseMotion
    \/ OnWindowEnter
    \/ OnWindowLeave
    \/ PollEmpty
    \/ DrawCursorPixel
    \/ UpdateGrid
    \/ UpdateScreen
    \/ SdlCleanup

Spec == Init /\ [][Next]_vars

(***************************************************************************)
(* SpecStep: the grid engine alone.  update_grid is run one loop iteration *)
(* at a time from every grid of every bounded configuration.               *)
(***************************************************************************)
StepConfigs ==
    { Config(d[1], d[2], Scale(1, 1)) :
        d \in { e \in (1..MaxCells) \X (1..MaxCells) : e[1] * e[2] <= MaxCells } }
    \cup { Config(5, 3, Scale(1, 1)) }

Alive(g) == { k \in DOMAIN g : g[k] }

Seeds ==
    IF grid_size <= MaxCells
    THEN AllGrids
    ELSE { g \in AllGrids : Cardinality(Alive(g)) <= MaxAlive }

InitStep ==
    /\ C \in StepConfigs
    /\ set_config(C)
    /\ state = "RUNNING"
    /\ pc = "scan"
    /\ grid \in Seeds
    /\ seed = grid
    /\ next_gen = AllDead
    /\ pixels = [k \in Cells |-> "bg"]
    /\ draw_flag = FALSE
    /\ erase_flag = FALSE
    /\ cp = cp_init
    /\ mouse = [x |-> 0, y |-> 0]
    /\ handles = [r \in Resources |-> "live"]
    /\ fault = {}
    /\ scan = scan_first
    /\ written = {}
    /\ reads = {}
    /\ gens = 0
    /\ event = NoEvent
    /\ rendered = <<>>
    /\ toggles = 0
    /\ pressed = {}

\* One iteration of update_grid's inner loop.
ScanCell ==
    /\ pc = "scan"
    /\ ~scan_done(scan)
    /\ \E wild \in BOOLEAN :
         LET r == scan_cell(Bufs(grid, next_gen), scan.i, scan.j, wild)
         IN  /\ grid' = r.grid
             /\ next_gen' = r.next_gen
             /\ written' = written \cup r.wrote
    /\ reads' = is_alive_reads(scan.i, scan.j)
    /\ scan' = scan_next(scan)
    /\ UNCHANGED <<C, state, pc, pixels, draw_flag, erase_flag, cp, mouse, handles,
                   fault, seed, gens, event, rendered, toggles, pressed>>

\* The memcpy that ends update_grid.
CopyBack ==
    /\ pc = "scan"
    /\ scan_done(scan)
    /\ grid' = copy_back(Bufs(grid, next_gen)).grid
    /\ next_gen' = copy_back(Bufs(grid, next_gen)).next_gen
    /\ gens' = gens + 1
    /\ pc' = "stepped"
    /\ UNCHANGED <<C, state, pixels, draw_flag, erase_flag, cp, mouse, handles,
                   fault, scan, written, reads, seed, event, rendered, toggles, pressed>>

\* The next call of update_grid.
NextGeneration ==
    /\ pc = "stepped"
    /\ gens < MaxGens
    /\ pc' = "scan"
    /\ scan' = scan_first
    /\ written' = {}
    /\ reads' = {}
    /\ UNCHANGED <<C, state, grid, next_gen, pixels, draw_flag, erase_flag, cp, mouse,
                   handles, fault, seed, gens, event, rendered, toggles, pressed>>

NextStep == ScanCell \/ CopyBack \/ NextGeneration

SpecStep == InitStep /\ [][NextStep]_vars

(***************************************************************************)
(* Conway's rule stated over the Moore neighbourhood clipped at the edges. *)
(***************************************************************************)
CellX(k) == k \div C.height

CellY(k) == k % C.height

Moore(x, y) ==
    { p \in ((x - 1)..(x + 1)) \X ((y - 1)..(y + 1)) : p # <<x, y>> /\ InRange(p[1], p[2]) }

LiveNeighbours(g, x, y) == Cardinality({ p \in Moore(x, y) : g[p[1] * C.height + p[2]] })

Conway(g) ==
    LET cur == g
    IN  [ k \in Cells |->
            LET n == LiveNeighbours(cur, CellX(k), CellY(k))
            IN  IF cur[k] THEN n \in {2, 3} ELSE n = 3 ]

RECURSIVE ConwayIter(_, _)
ConwayIter(g, n) == IF n = 0 THEN g ELSE Conway(ConwayIter(g, n - 1))

\* C1: after every completed update_grid the grid is Conway's rule applied to
\* the grid it started from: a live cell with 2 or 3 live neighbours and a dead
\* cell with exactly 3 are alive, every other cell is dead, neighbours being the
\* Moore cells inside the grid.
C1_UpdateGridIsConway == pc = "stepped" => grid = ConwayIter(seed, gens)

\* A 3 x 3 grid whose centre had all eight neighbours alive has been stepped.
C1_Witness ==
    /\ pc = "stepped" /\ gens = 1
    /\ C.width = 3 /\ C.height = 3
    /\ seed = [k \in Cells |-> TRUE]
    /\ Alive(grid) = {0, 2, 6, 8}

\* C2: update_grid is a synchronous update.  A loop iteration leaves grid as it
\* is and writes one more cell of next_gen; when the loops end every cell of
\* next_gen has been written by this scan and holds the value is_alive gives
\* on the still unmodified grid; only the memcpy then changes grid, to next_gen.
C2_SynchronousUpdate ==
    [][ /\ (pc = "scan" /\ ~scan_done(scan)) =>
              /\ grid' = grid
              /\ written' = written \cup { Idx(scan.i, scan.j) }
        /\ (pc = "scan" /\ scan_done(scan)) =>
              /\ written = Cells
              /\ \A k \in Cells :
                    next_gen[k] = is_alive(grid, CellX(k), CellY(k), FALSE)
              /\ grid' = next_gen ]_vars

\* A second generation's scan has ended on a grid that differs from the stale
\* content next_gen held when that scan began.
C2_Witness ==
    /\ pc = "scan" /\ scan_done(scan)
    /\ gens = 1
    /\ written = Cells
    /\ next_gen # grid
    /\ grid_size > 1

Abs(n) == IF n < 0 THEN -n ELSE n

\* C3: every coordinate an is_alive call passes to get_cell lies inside
\* [0,width) x [0,height), its flat index lies inside the buffer, and all of
\* them are within one row and one column of each other (none comes from the
\* opposite edge).
C3_ReadsInsideGrid ==
    /\ \A r \in reads : InRange(r[1], r[2]) /\ Idx(r[1], r[2]) \in Cells
    /\ \A r \in reads : \A q \in reads :
          Abs(r[1] - q[1]) <= 2 /\ Abs(r[2] - q[2]) <= 2
    /\ reads # {} =>
          \E c \in reads : \A r \in reads : Abs(r[1] - c[1]) <= 1 /\ Abs(r[2] - c[2]) <= 1

\* The last cell, a corner of a 3 x 3 grid, has been scanned: is_alive read the
\* corner and its three neighbours inside the grid.
C3_Witness ==
    /\ pc = "scan" /\ scan_done(scan)
    /\ C.width = 3 /\ C.height = 3
    /\ reads = { <<2, 2>>, <<1, 2>>, <<2, 1>>, <<1, 1>> }

BlinkerRow == { Idx(1, 1), Idx(2, 1), Idx(3, 1) }

BlinkerColumn == { Idx(2, 0), Idx(2, 1), Idx(2, 2) }

\* C4: on the 5 x 3 grid whose live cells are (1,1), (2,1), (3,1), one
\* update_grid leaves exactly (2,0), (2,1), (2,2) alive, and a second one
\* restores the row.
C4_Blinker ==
    (/\ C.width = 5 /\ C.height = 3
     /\ Alive(seed) = BlinkerRow
     /\ pc = "stepped")
    => /\ gens = 1 => Alive(grid) = BlinkerColumn
       /\ gens = 2 => Alive(grid) = BlinkerRow

\* The blinker has been stepped twice.
C4_Witness ==
    /\ C.width = 5 /\ C.height = 3
    /\ Alive(seed) = BlinkerRow
    /\ pc = "stepped" /\ gens = 2
    /\ Alive(next_gen) = BlinkerRow

\* C5: once state is QUIT the main loop performs no update_grid and no
\* update_screen.
C5_NoStepAfterQuit ==
    [][ state = "QUIT" =>
          /\ ~(pc = "after_events" /\ pc' = "update_screen")
          /\ ~(pc = "update_screen" /\ pc' = "loop") ]_vars

Exited == pc \in {"exit_success", "exit_failure"}

\* C6: when main returns, after the loop or after a failed sdl_init, every
\* resource that was acquired has been released exactly once.
C6_ReleasedExactlyOnce ==
    Exited => \A r \in Resources : handles[r] \in {"null", "released"}

IntegralScale == C.scale.num % C.scale.den = 0

TrueColor(x, y) == IF grid[Idx(x, y)] THEN "fg" ELSE "bg"

\* C7 (on integral scales, where every coordinate is inside the grid, and for a
\* previous coordinate other than the initial (0,0), which only an earlier
\* draw_cursor_pixel call can have stored): a draw_cursor_pixel call that finds
\* the ghost at a coordinate other than the previous one leaves the previous
\* pixel in the colour of its cell: foreground if the cell is alive at that
\* moment, background if it is dead.
C7_GhostRestoresTrueColour ==
    [][ (/\ pc = "after_events" /\ state = "PAUSED" /\ cp.active
         /\ pc' = "loop"
         /\ IntegralScale
         /\ <<cp.prev_x, cp.prev_y>> # <<0, 0>>
         /\ (cp'.x # cp.prev_x \/ cp'.y # cp.prev_y))
        => pixels'[Idx(cp.prev_x, cp.prev_y)] = TrueColor(cp.prev_x, cp.prev_y) ]_vars

\* C8: no get_cell or set_cell call of the press and move handlers or of
\* draw_cursor_pixel is made with a coordinate outside [0,width) x [0,height).
C8_EditorAccessesInRange == "out_of_range" \notin fault

\* floor(v / C.scale), the scale being the rational num/den.
FloorByScale(v) == (v * C.scale.den) \div C.scale.num

\* C9: no division by zero is executed, and the grid coordinate
\* draw_cursor_pixel computes is the mouse position divided by the scale
\* factor, floored.
C9_NoRuntimeError ==
    /\ "div_by_zero" \notin fault
    /\ pc # "crashed"
    /\ (pc = "loop" /\ state = "PAUSED" /\ cp.active) =>
          /\ cp.x = FloorByScale(mouse.x)
          /\ cp.y = FloorByScale(mouse.y)

\* C10: once a quit signal has been handled state stays QUIT, and
\* handle_events takes no further event: the handler that sets QUIT leaves the
\* poll loop, and main never enters it again.
C10_QuitIsTerminal ==
    [][ /\ state = "QUIT" => (state' = "QUIT" /\ pc # "events" /\ pc' # "events")
        /\ (state # "QUIT" /\ state' = "QUIT") => (pc = "events" /\ pc' # "events") ]_vars

\* A quit signal has been handled while paused: the ghost pixel is still shown.
C10_Witness ==
    /\ state = "QUIT"
    /\ pc = "after_events"
    /\ \E k \in Cells : pixels[k] = "cp"

(***************************************************************************)
(* The events of handle_events, as the claims about them name them.        *)
(***************************************************************************)
KeySpace == Event("SDL_KEYDOWN", "SDLK_SPACE")

KeyC == Event("SDL_KEYDOWN", "SDLK_c")

KeyR == Event("SDL_KEYDOWN", "SDLK_r")

QuitEvents == { Event("SDL_QUIT", ""), Event("SDL_KEYDOWN", "SDLK_ESCAPE") }

\* The step handles a polled event of handle_events.
Handles(e) == pc = "events" /\ event' = e

HandlesType(t) == pc = "events" /\ event'.type = t

\* C11: as long as no quit signal was handled, the run state is the initial
\* one (RUNNING) exactly when the number of pause-toggle events handled so far
\* is even, and PAUSED exactly when it is odd: two toggles in a row give back
\* the state they started from, from RUNNING and from PAUSED alike.
C11_ToggleRoundTrip ==
    state # "QUIT" => /\ state \in {"RUNNING", "PAUSED"}
                      /\ state = "RUNNING" <=> toggles = 0

\* The second of two pause toggles has just been handled.
C11_Witness ==
    /\ pc = "events"
    /\ event = KeySpace
    /\ toggles = 0
    /\ state = "RUNNING"

\* C12: the run state starts as RUNNING, and a step changes it only by
\* handling a pause toggle or a quit signal: button presses and releases,
\* motion, window enter and leave, clear, randomize, the generation step, the
\* ghost update and every other step of main leave it as it is.
C12_RunStateFrame ==
    /\ state = "RUNNING"
    /\ [][ /\ state' # state => (Handles(KeySpace) \/ \E q \in QuitEvents : Handles(q))
           /\ \A t \in {"SDL_MOUSEBUTTONDOWN", "SDL_MOUSEBUTTONUP", "SDL_MOUSEMOTION",
                        "SDL_WINDOWEVENT"} : HandlesType(t) => state' = state
           /\ (Handles(KeyC) \/ Handles(KeyR)) => state' = state
           /\ pc # "events" => state' = state ]_vars

\* A button press has been handled while the simulation was paused, and the
\* state is still PAUSED.
C12_Witness ==
    /\ pc = "events"
    /\ event.type = "SDL_MOUSEBUTTONDOWN"
    /\ state = "PAUSED"
    /\ grid # AllDead

\* The events the editor changes the grid on, and the two grid commands.
GridEvents ==
    { Event("SDL_MOUSEBUTTONDOWN", "LEFT"), Event("SDL_MOUSEBUTTONDOWN", "RIGHT"),
      Event("SDL_MOUSEMOTION", ""), KeyC, KeyR }

C14_IdleMotion ==
    [][ (HandlesType("SDL_MOUSEMOTION") /\ ~draw_flag /\ ~erase_flag)
        => /\ grid' = grid
           /\ draw_flag' = draw_flag
           /\ erase_flag' = erase_flag
           /\ rendered' = <<>>
           /\ pixels' = pixels ]_vars

\* A motion has been handled with both flags false over a grid with live cells.
C14_Witness ==
    /\ pc = "events"
    /\ event.type = "SDL_MOUSEMOTION"
    /\ ~draw_flag
    /\ ~erase_flag
    /\ grid # AllDead
    /\ mouse # [x |-> 0, y |-> 0]

\* The grid coordinate a handler computes from the device pixel v.
ByScale(v) == IF ScaleU32 # 0 THEN v \div ScaleU32 ELSE 0

\* C15: after every handled event of a running program draw_flag is true
\* exactly when the last LEFT press or release was a press, and erase_flag
\* likewise for RIGHT; a press or release of LEFT leaves erase_flag as it was
\* and one of RIGHT leaves draw_flag as it was; a LEFT press leaves the cell
\* under it alive and a RIGHT press leaves it dead (for a coordinate inside
\* the grid).
C15_FlagsTrackButtons ==
    [][ pc' # "crashed" =>
          LET x == ByScale(mouse.x)
              y == ByScale(mouse.y)
          IN  /\ draw_flag' <=> "LEFT" \in pressed'
              /\ erase_flag' <=> "RIGHT" \in pressed'
              /\ \A t \in {"SDL_MOUSEBUTTONDOWN", "SDL_MOUSEBUTTONUP"} :
                   /\ Handles(Event(t, "LEFT")) => erase_flag' = erase_flag
                   /\ Handles(Event(t, "RIGHT")) => draw_flag' = draw_flag
              /\ (ScaleU32 # 0 /\ InRange(x, y)) =>
                   /\ Handles(Event("SDL_MOUSEBUTTONDOWN", "LEFT")) => grid'[Idx(x, y)]
                   /\ Handles(Event("SDL_MOUSEBUTTONDOWN", "RIGHT")) => ~grid'[Idx(x, y)] ]_vars

\* RIGHT has been released while LEFT is still held: erase_flag is false again
\* and draw_flag is still true.
C15_Witness ==
    /\ pc = "events"
    /\ event = Event("SDL_MOUSEBUTTONUP", "RIGHT")
    /\ draw_flag
    /\ ~erase_flag
    /\ pressed = {"LEFT"}
    /\ grid # AllDead

\* The render calls of the last action that drew the ghost colour.
GhostDraws == { i \in DOMAIN rendered : rendered[i].color = "cp" }

\* C16: a draw_cursor_pixel call changes no grid cell; it draws the ghost
\* colour at the cursor coordinate only, and (for a coordinate inside the
\* grid) only when the cell there is dead at that moment; after it no pixel
\* of a live cell shows the ghost colour.
C16_GhostOnlyOnDeadCells ==
    [][ (pc = "after_events" /\ state = "PAUSED") =>
          /\ grid' = grid
          /\ \A i \in DOMAIN rendered' :
               rendered'[i].color = "cp" =>
                 /\ rendered'[i].x = cp'.x
                 /\ rendered'[i].y = cp'.y
                 /\ InRange(cp'.x, cp'.y) => ~grid[Idx(cp'.x, cp'.y)]
          /\ \A k \in Cells : pixels'[k] = "cp" => ~grid'[k] ]_vars

\* draw_cursor_pixel has run with the cursor on a live cell and drew no ghost.
C16_Witness ==
    /\ pc = "loop"
    /\ state = "PAUSED"
    /\ cp.active
    /\ InRange(cp.x, cp.y)
    /\ grid[Idx(cp.x, cp.y)]
    /\ GhostDraws = {}
    /\ rendered # <<>>

\* C17: handling the clear key, in RUNNING and in PAUSED alike, leaves every
\* cell dead and redraws the whole grid from the cleared grid in the same
\* handler, before another event is polled: every pixel then shows the
\* background.  The configuration and both drag flags are unchanged.
C17_ClearLeavesAllDead ==
    [][ Handles(KeyC) =>
          /\ \A k \in Cells : ~grid'[k]
          /\ rendered' = <<FullRedraw>>
          /\ \A k \in Cells : pixels'[k] = "bg"
          /\ pc' = "events"
          /\ C' = C
          /\ state' = state
          /\ draw_flag' = draw_flag
          /\ erase_flag' = erase_flag ]_vars

\* The clear key has been handled in PAUSED, with a drag in progress and the
\* ghost shown before it.
C17_Witness ==
    /\ pc = "events"
    /\ event = KeyC
    /\ state = "PAUSED"
    /\ draw_flag
    /\ grid = AllDead
    /\ cp.active
    /\ ~cp.prev_state

\* C18: a motion to a coordinate (x, y) of the grid handled while draw_flag
\* and erase_flag are both true sets the cell alive and then dead: the render
\* calls are the foreground and then the background colour at (x, y), the
\* cell ends dead and its pixel shows the background.
C18_DrawThenErase ==
    [][ LET x == ByScale(mouse'.x)
            y == ByScale(mouse'.y)
        IN  (/\ HandlesType("SDL_MOUSEMOTION")
             /\ draw_flag /\ erase_flag
             /\ ScaleU32 # 0 /\ InRange(x, y))
            => /\ rendered' = <<Point(x, y, "fg"), Point(x, y, "bg")>>
               /\ ~grid'[Idx(x, y)]
               /\ pixels'[Idx(x, y)] = "bg"
               /\ \A k \in Cells \ {Idx(x, y)} : grid'[k] = grid[k] ]_vars

\* A motion has been handled with both flags true, away from the origin.
C18_Witness ==
    /\ pc = "events"
    /\ event.type = "SDL_MOUSEMOTION"
    /\ draw_flag
    /\ erase_flag
    /\ Len(rendered) = 2
    /\ ByScale(mouse.x) + ByScale(mouse.y) > 0
    /\ grid # AllDead

GhostPixels == { k \in Cells : pixels[k] = "cp" }

\* C19: at the end of every paused loop iteration, after draw_cursor_pixel
\* has run, at most one pixel shows the ghost colour, and a pixel that shows
\* it is the one at the current ghost coordinate (cp.x, cp.y).
C19_AtMostOneGhost ==
    (pc = "loop" /\ state = "PAUSED") =>
        /\ Cardinality(GhostPixels) <= 1
        /\ \A k \in GhostPixels : InRange(cp.x, cp.y) /\ k = Idx(cp.x, cp.y)

\* draw_cursor_pixel has drawn the ghost two cells away from where it drew it
\* before, and one ghost pixel is shown.
C19_Witness ==
    /\ pc = "loop"
    /\ state = "PAUSED"
    /\ Len(rendered) = 2
    /\ rendered[1].color = "cp"
    /\ Abs(rendered[1].x - rendered[2].x) + Abs(rendered[1].y - rendered[2].y) >= 2
    /\ Cardinality(GhostPixels) = 1
    /\ grid # AllDead

\* The coordinates of the grid.
Coords == (0..(C.width - 1)) \X (0..(C.height - 1))

\* The flat indices of the coordinates of the grid.
Image == { Idx(p[1], p[2]) : p \in Coords }

\* C20: the flat index x * height + y maps the coordinates of the grid one to
\* one onto 0 .. width * height - 1 (the image is that interval and has as many
\* elements as there are coordinates), and so, at the coordinate p update_grid
\* is about to write and for every value v, a get_cell at p after a set_cell of
\* v at p returns v, while a get_cell at any other coordinate returns what it
\* returned before; on square and non-square grids alike.
C20_FlatIndexBijection ==
    /\ Image = 0..(C.width * C.height - 1)
    /\ Cardinality(Image) = Cardinality(Coords)
    /\ (pc = "scan" /\ ~scan_done(scan)) =>
         \A v \in BOOLEAN :
           LET arr == set_cell(next_gen, scan.i, scan.j, v)
           IN  /\ get_cell(arr, scan.i, scan.j, ~v) = v
               /\ \A q \in Coords \ {<<scan.i, scan.j>>} :
                    get_cell(arr, q[1], q[2], FALSE) = get_cell(next_gen, q[1], q[2], FALSE)

\* update_grid has written every cell of a 2 x 3 grid through set_cell, and
\* the cells (1,0) and (0,2), whose indices a width stride would confuse,
\* hold different values.
C20_Witness ==
    /\ C.width = 2
    /\ C.height = 3
    /\ pc = "scan"
    /\ scan_done(scan)
    /\ get_cell(next_gen, 0, 2, FALSE)
    /\ ~get_cell(next_gen, 1, 0, TRUE)

====
